---- MODULE Spec2Model ----
(***************************************************************************)
(* Model of wordpress_setup.py: the configuration resolver, the artifact   *)
(* generator, the precondition checks and the action pipeline of main().   *)
(* Text is a sequence of one-character strings, so that rendering and      *)
(* parsing of the .env file and the substring test on .gitignore are       *)
(* computed as the code computes them.                                     *)
(***************************************************************************)
EXTENDS Integers, Sequences, FiniteSets, TLC

\* ------------------------------------------------------------------ bounds
MaxRuns == 3
MaxRetries == 2
\* longest enumerated string handed to the hostname grammar
MaxLen == 3

\* -------------------------------------------------------- program constants
HOSTNAME == <<"l", "o", "c", "a", "l", "h", "o", "s", "t">>
PORT == 8080
MNT_FOLDER == <<"d", "b", "_", "d", "a", "t", "a">>
SILENT == FALSE

K_DB_MNT == <<"D", "B", "_", "M", "N", "T">>
K_DB_ROOT_PASSWD == <<"D", "B", "_", "R", "O", "O", "T", "_", "P", "A", "S", "S", "W", "D">>
K_DB_PASSWD == <<"D", "B", "_", "P", "A", "S", "S", "W", "D">>
K_HOST_PORT == <<"H", "O", "S", "T", "_", "P", "O", "R", "T">>
K_HOSTNAME == <<"H", "O", "S", "T", "N", "A", "M", "E">>
RequiredKeys == {K_DB_MNT, K_DB_ROOT_PASSWD, K_DB_PASSWD, K_HOST_PORT, K_HOSTNAME}

\* ------------------------------------------------------------ input values
HostAlt == <<"a", ".", "b">>
MntAlt == <<"m", "n", "t">>
MntSpaced == <<"m", " ", "t">>
HostSpaced == <<"a", " ", "b">>
SixDigits == <<"1", "2", "3", "4", "5", "6">>
PortAlt == PORT + 1
Token1 == <<"t", "k", "1">>
Token2 == <<"t", "k", "2">>
RootToken1 == <<"r", "t", "1">>
RootToken2 == <<"r", "t", "2">>
PwPlain == <<"p", "w">>
PwPadded == <<"p", "w", " ">>
HandText == <<"#", "x">>

Hosts == {HOSTNAME, HostAlt}

None == [some |-> FALSE, v |-> <<>>]
Some(s) == [some |-> TRUE, v |-> s]

\* ------------------------------------------------------------ str methods
Range(s) == {s[i] : i \in 1..Len(s)}

IsSpace(c) == c \in {" ", "\t", "\n", "\r", "\f"}

RECURSIVE LStrip(_)
LStrip(s) ==
    IF s = <<>> THEN s
    ELSE IF IsSpace(Head(s)) THEN LStrip(Tail(s)) ELSE s

RECURSIVE RStrip(_)
RStrip(s) ==
    IF s = <<>> THEN s
    ELSE IF IsSpace(s[Len(s)]) THEN RStrip(SubSeq(s, 1, Len(s) - 1)) ELSE s

Strip(s) == RStrip(LStrip(s))

Count(s, c) == Cardinality({i \in 1..Len(s) : s[i] = c})

\* s.split(sep) for a one-character separator drawn from seps
RECURSIVE SplitAt(_, _, _)
SplitAt(s, seps, cur) ==
    IF s = <<>> THEN <<cur>>
    ELSE IF Head(s) \in seps
         THEN <<cur>> \o SplitAt(Tail(s), seps, <<>>)
         ELSE SplitAt(Tail(s), seps, Append(cur, Head(s)))

\* `sub in text`
Contains(text, sub) ==
    \E i \in 1..(Len(text) - Len(sub) + 1) : SubSeq(text, i, i + Len(sub) - 1) = sub

Digits == <<"0", "1", "2", "3", "4", "5", "6", "7", "8", "9">>

\* str(n) for n >= 0
RECURSIVE IntToStr(_)
IntToStr(n) ==
    IF n < 10 THEN <<Digits[n + 1]>>
    ELSE IntToStr(n \div 10) \o <<Digits[(n % 10) + 1]>>

DigitVal(c) == CHOOSE d \in 0..9 : Digits[d + 1] = c

\* int(s): ok is FALSE where Python raises ValueError
RECURSIVE DigitsToInt(_, _)
DigitsToInt(s, acc) ==
    IF s = <<>> THEN acc ELSE DigitsToInt(Tail(s), acc * 10 + DigitVal(Head(s)))

StrToInt(s) ==
    LET t == Strip(s) IN
    IF t # <<>> /\ \A i \in 1..Len(t) : \E d \in 1..10 : Digits[d] = t[i]
    THEN [ok |-> TRUE, v |-> DigitsToInt(t, 0)]
    ELSE [ok |-> FALSE, v |-> 0]

Join(a, b) == a \o <<"\n">> \o b

\* ------------------------------------------------------------ grammars
Lower == {"a", "b", "c", "d", "e", "f", "g", "h", "i", "j", "k", "l", "m",
          "n", "o", "p", "q", "r", "s", "t", "u", "v", "w", "x", "y", "z"}
Upper == {"A", "B", "C", "D", "E", "F", "G", "H", "I", "J", "K", "L", "M",
          "N", "O", "P", "Q", "R", "S", "T", "U", "V", "W", "X", "Y", "Z"}
Alnum == Lower \cup Upper \cup Range(Digits)

\* what `$` lets re.match cover: the whole string, or all of it but a final
\* line feed
UpToDollar(s) ==
    {s} \cup (IF s # <<>> /\ s[Len(s)] = "\n" THEN {SubSeq(s, 1, Len(s) - 1)} ELSE {})

\* re.match(r'^([a-zA-Z0-9]+\.)*[a-zA-Z0-9]+$', s): labels of letters and
\* digits, none of them empty, with dots between them
HOSTNAME_REGEX(s) ==
    \E b \in UpToDollar(s) :
        LET labels == SplitAt(b, {"."}, <<>>) IN
        \A i \in 1..Len(labels) :
            /\ labels[i] # <<>>
            /\ \A j \in 1..Len(labels[i]) : labels[i][j] \in Alnum

\* re.match(r'^[0-9]{1,5}$', s)
PORT_REGEX(s) ==
    \E b \in UpToDollar(s) :
        /\ Len(b) \in 1..5
        /\ \A i \in 1..Len(b) : b[i] \in Range(Digits)

\* re.match(r'^([^ \t\n\\]|/[^ \t\n\\])*(/[^ \t\n\\])?$', s): '/' is itself in
\* the class, so any string without space, tab, line feed and backslash
PATH_REGEX(s) ==
    \E b \in UpToDollar(s) :
        \A i \in 1..Len(b) : b[i] \notin {" ", "\t", "\n", "\\"}

\* ------------------------------------------------------------ .env file
\* Actions.generate_dotenv with both passwords given
generate_dotenv(hostname, host_port, db_mnt, db_passwd, db_root_passwd) ==
    Join(K_DB_MNT \o <<"=">> \o db_mnt,
    Join(K_DB_ROOT_PASSWD \o <<"=">> \o db_root_passwd,
    Join(K_DB_PASSWD \o <<"=">> \o db_passwd,
    Join(K_HOST_PORT \o <<"=">> \o IntToStr(host_port),
         K_HOSTNAME \o <<"=">> \o hostname))))

\* the loop of read_dotenv over the lines of the file
RECURSIVE ParseLines(_, _)
ParseLines(lines, d) ==
    IF lines = <<>> THEN [ok |-> TRUE, d |-> d]
    ELSE LET line == Head(lines) IN
         IF Strip(line) = <<>> \/ Head(Strip(line)) = "#"
         THEN ParseLines(Tail(lines), d)
         ELSE IF Count(line, "=") # 1
         THEN [ok |-> FALSE, d |-> d]
         ELSE LET parts == SplitAt(line, {"="}, <<>>)
                  key == Strip(parts[1])
                  value == Strip(parts[2])
              IN ParseLines(Tail(lines),
                     [k \in (DOMAIN d) \cup {key} |-> IF k = key THEN value ELSE d[k]])

\* read_dotenv: ok is FALSE where it raises AssertionError; extra tells whether
\* the returned dict holds keys besides the five required ones
read_dotenv_lenient(text) ==
    [ok |-> TRUE, hostname |-> HOSTNAME, host_port |-> IntToStr(PORT),
     db_mnt |-> MNT_FOLDER, db_passwd |-> Token1, db_root_passwd |-> RootToken1,
     extra |-> FALSE]
read_dotenv(text) ==
    LET p == ParseLines(SplitAt(text, {"\n", "\r"}, <<>>), <<>>) IN
    IF ~p.ok \/ ~(RequiredKeys \subseteq DOMAIN p.d)
    THEN [ok |-> FALSE]
    ELSE [ok |-> TRUE,
          hostname |-> p.d[K_HOSTNAME],
          host_port |-> p.d[K_HOST_PORT],
          db_mnt |-> p.d[K_DB_MNT],
          db_passwd |-> p.d[K_DB_PASSWD],
          db_root_passwd |-> p.d[K_DB_ROOT_PASSWD],
          extra |-> (DOMAIN p.d) # RequiredKeys]

\* ------------------------------------------------------------ artifacts
Absent == [kind |-> "absent", text |-> <<>>]
Dir == [kind |-> "dir", text |-> <<>>]
File(t) == [kind |-> "file", text |-> t]

\* Actions.generate_dotgitignore
IgnoreComment == <<"#", " ", "I", "g", "n", "o", "r", "e", " ", "t", "h", "e", " ", "d", "a", "t", "a", "b", "a", "s", "e", " ", "d", "a", "t", "a", " ", "f", "o", "l", "d", "e", "r">>
generate_dotgitignore(db_mnt) == Join(IgnoreComment, db_mnt \o <<"/">>)

\* Actions.generate_docker_compose: a fixed text, kept as its lines that carry
\* a variable of the .env file
generate_docker_compose ==
    <<"services:", "db:", "- ${DB_MNT}:/var/lib/mysql",
      "- MYSQL_ROOT_PASSWORD=${DB_ROOT_PASSWD}", "- MYSQL_PASSWORD=${DB_PASSWD}",
      "wordpress:", "- ${HOST_PORT}:80", "- WORDPRESS_DB_PASSWORD=${DB_PASSWD}",
      "volumes:", "db_data:">>
HandCompose == <<"# edited by hand">>

\* Actions.generate_nginx_conf: the three values the template is filled with
generate_nginx_conf(hostname, host_port, internal_host) ==
    [server_name |-> hostname, internal_host |-> internal_host, host_port |-> host_port]
NoConf == [server_name |-> <<>>, internal_host |-> <<>>, host_port |-> 0]
HandConf == [server_name |-> HandText, internal_host |-> HandText, host_port |-> 0]
\* the default of create_nginx_conf's internal_host parameter
INTERNAL_HOST == <<"l", "o", "c", "a", "l", "h", "o", "s", "t">>

SiteAbsent == [kind |-> "absent", conf |-> NoConf]
SiteDir == [kind |-> "dir", conf |-> NoConf]
SiteFile(c) == [kind |-> "file", conf |-> c]

\* ------------------------------------------------------------ state
VARIABLES
    fs,          \* working directory and the proxy daemon's site directories
    fs0,         \* fs as it was when the current run started
    pc,          \* position of the current run in main()
    block,       \* which if-block of main() is executing (1..5)
    args,        \* argparse.Namespace of the current run
    options,     \* the dict Actions.configure returns
    exitCode,    \* exit status of the current run, -1 while it runs
    trace,       \* the steps and tool invocations of the current run, in order
    failed,      \* tool invocations of the current run that returned non-zero
    asked,       \* prompts shown to the operator in the current run
    failedCheck, \* the gate and the check that last failed in the current run
    runs,        \* number of runs started
    prev,        \* the mount path of the run before, when it was a default-mode
                 \* run that got past create_dotgitignore
    written,     \* what create_dotenv last wrote, until cleanup removes it
    dialog,      \* Actions.configure_interactive: the field being asked, the
                 \* answers accepted so far, the last answer typed
    evaluated    \* the checks the last gate evaluated, in the order it
                 \* evaluated them, each with what it returned

vars == <<fs, fs0, pc, block, args, options, exitCode, trace, failed, asked,
          failedCheck, runs, prev, written, dialog, evaluated>>

NoArgs ==
    [install |-> FALSE, uninstall |-> FALSE, certbot |-> FALSE, cleanup |-> FALSE,
     interactive |-> FALSE, silent |-> FALSE,
     hostname |-> HOSTNAME, host_port |-> PORT, db_mnt |-> MNT_FOLDER,
     db_passwd |-> None, db_root_passwd |-> None]

NoOptions ==
    [resolved |-> FALSE, hostname |-> <<>>, host_port |-> 0, db_mnt |-> <<>>,
     db_passwd |-> <<>>, db_root_passwd |-> <<>>, extra |-> FALSE]

NoFail == [gate |-> "none", check |-> "none"]
Failed(g, c) == [gate |-> g, check |-> c]
NoPrev == [some |-> FALSE, db_mnt |-> <<>>]
NotWritten == [some |-> FALSE, text |-> <<>>,
               db_passwd |-> <<>>, db_root_passwd |-> <<>>]
NoAnswer == [some |-> FALSE, field |-> 0, text |-> <<>>]
NoDialog == [field |-> 0, tries |-> 0, values |-> <<>>, last |-> NoAnswer]

\* the values of the five value flags, as given on the command line
CliValues ==
    { [hostname |-> HOSTNAME, host_port |-> PORT, db_mnt |-> MNT_FOLDER,
       db_passwd |-> None, db_root_passwd |-> None],
      [hostname |-> HostAlt, host_port |-> PortAlt, db_mnt |-> MntAlt,
       db_passwd |-> Some(PwPadded), db_root_passwd |-> Some(PwPlain)],
      [hostname |-> HOSTNAME, host_port |-> PORT, db_mnt |-> MntSpaced,
       db_passwd |-> None, db_root_passwd |-> None] }

\* outcomes of secrets.token_urlsafe(16) for the two passwords
TokenPairs == {<<Token1, RootToken1>>, <<Token2, RootToken2>>}

MalformedEnv == K_DB_MNT \o <<"=">> \o MNT_FOLDER
\* all five keys, the line of DB_PASSWD with two '='
MalformedLine ==
    generate_dotenv(HOSTNAME, PORT, MNT_FOLDER, Token1 \o <<"=">>, RootToken1)

\* a directory as an earlier run with the given values left it
Configured(hostname, host_port, db_mnt, db_passwd, db_root_passwd) ==
    [dotenv |-> File(generate_dotenv(hostname, host_port, db_mnt, db_passwd, db_root_passwd)),
     compose |-> File(generate_docker_compose),
     gitignore |-> File(generate_dotgitignore(db_mnt)),
     git |-> "dir",
     sites |-> [h \in Hosts |-> IF h = hostname
                                THEN SiteFile(generate_nginx_conf(hostname, host_port, INTERNAL_HOST))
                                ELSE SiteAbsent]]

EmptyDir ==
    [dotenv |-> Absent, compose |-> Absent, gitignore |-> Absent,
     git |-> "absent", sites |-> [h \in Hosts |-> SiteAbsent]]

\* the working directory when a run starts: empty, holding one thing the
\* operator put there, or configured by an earlier run
InitialDirs ==
    { EmptyDir,
      [EmptyDir EXCEPT !.dotenv = Dir],
      [EmptyDir EXCEPT !.dotenv = File(MalformedEnv)],
      [EmptyDir EXCEPT !.dotenv = File(MalformedLine)],
      [EmptyDir EXCEPT !.compose = File(HandCompose)],
      [EmptyDir EXCEPT !.compose = Dir],
      [EmptyDir EXCEPT !.gitignore = Dir],
      [EmptyDir EXCEPT !.gitignore = File(HandText)],
      [EmptyDir EXCEPT !.git = "dir"],
      [EmptyDir EXCEPT !.sites[HOSTNAME] = SiteFile(HandConf)],
      [EmptyDir EXCEPT !.sites[HostAlt] = SiteDir],
      Configured(HOSTNAME, PORT, MNT_FOLDER, Token1, RootToken1),
      Configured(HostAlt, PortAlt, MntAlt, Token2, RootToken2) }

\* the proxy daemon's directories when a run starts: no site directories, or
\* a site installed for one hostname, enabled or not
NoNginx ==
    [availDir |-> FALSE, enabledDir |-> FALSE,
     avail |-> [h \in Hosts |-> SiteAbsent],
     enabled |-> [h \in Hosts |-> "absent"]]

Installed(h, link) ==
    [availDir |-> TRUE, enabledDir |-> TRUE,
     avail |-> [g \in Hosts |-> IF g = h THEN SiteFile(HandConf) ELSE SiteAbsent],
     enabled |-> [g \in Hosts |-> IF g = h /\ link THEN "link" ELSE "absent"]]

InitialNginx == {NoNginx} \cup {Installed(h, link) : h \in Hosts, link \in BOOLEAN}

Merge(d, n) ==
    [dotenv |-> d.dotenv, compose |-> d.compose, gitignore |-> d.gitignore,
     git |-> d.git, sites |-> d.sites,
     availDir |-> n.availDir, enabledDir |-> n.enabledDir,
     avail |-> n.avail, enabled |-> n.enabled]

InitRun ==
    /\ fs0 = fs
    /\ pc = "idle"
    /\ block = 0
    /\ args = NoArgs
    /\ options = NoOptions
    /\ exitCode = -1
    /\ trace = <<>>
    /\ failed = {}
    /\ asked = {}
    /\ failedCheck = NoFail
    /\ runs = 0
    /\ prev = NoPrev
    /\ written = NotWritten
    /\ dialog = NoDialog
    /\ evaluated = <<>>

Init ==
    /\ fs \in {Merge(d, n) : d \in InitialDirs, n \in InitialNginx}
    /\ InitRun

\* ------------------------------------------------------------ main()
without_options_always(a) == TRUE
without_options(a) == ~(a.install \/ a.uninstall \/ a.certbot \/ a.cleanup)

\* the conditions of the if-blocks of main(), lines 947, 950, 953, 957, 965
BlockCondCleanupFirst(a, k) ==
    CASE k = 1 -> without_options(a)
      [] k = 2 -> a.cleanup
      [] k = 3 -> a.install
      [] k = 4 -> a.uninstall
      [] k = 5 -> a.certbot
      [] OTHER -> TRUE

BlockCond(a, k) ==
    CASE k = 1 -> without_options(a)
      [] k = 2 -> a.cleanup /\ ~a.uninstall
      [] k = 3 -> a.install
      [] k = 4 -> a.uninstall
      [] k = 5 -> a.certbot
      [] OTHER -> TRUE

BlockEntry(k) ==
    CASE k = 1 -> "mk_gate"
      [] k = 2 -> "cl_down"
      [] k = 3 -> "mk_gate"
      [] k = 4 -> "un_gate"
      [] k = 5 -> "cb_gate"
      [] OTHER -> "done"

\* the first if-block from k on whose condition holds, 6 when none does
RECURSIVE NextBlock(_, _)
NextBlock(a, k) == IF k >= 6 \/ BlockCond(a, k) THEN k ELSE NextBlock(a, k + 1)

\* control passes to the first if-block from k on, or main() returns (exit 0)
Proceed(k) ==
    LET n == NextBlock(args, k) IN
    /\ pc' = BlockEntry(n)
    /\ block' = n
    /\ exitCode' = IF n >= 6 THEN 0 ELSE exitCode

\* sys.exit(code), directly or from an except clause of main()
Exit(code) ==
    /\ pc' = "done"
    /\ block' = block
    /\ exitCode' = code

Goto(p) ==
    /\ pc' = p
    /\ block' = block
    /\ exitCode' = exitCode

Log(e) == trace' = Append(trace, e)

\* ------------------------------------------------------------ checks
\* the wrapper of the check decorator: interactive_handler, then throw_handler
Prompted(mode, result) == ~SILENT /\ mode = "THROW_WARN" /\ ~result

interactive_handler(mode, result, answerYes) ==
    IF Prompted(mode, result) THEN answerYes ELSE result

throw_handler(mode, result) ==
    IF result THEN "true"
    ELSE IF mode = "THROW_ERROR" THEN "raise"
    ELSE IF mode = "EXIT" THEN "exit"
    ELSE "false"

check(mode, result, answerYes) ==
    throw_handler(mode, interactive_handler(mode, result, answerYes))

\* Checks.conflicting_args
conflicting_args_three(flags) ==
    ~(Cardinality({i \in 1..Len(flags) : flags[i]}) > 2)
conflicting_args(flags) ==
    ~(Cardinality({i \in 1..Len(flags) : flags[i]}) > 1)

\* Checks.not_already_configured
not_already_configured(f) ==
    ~(f.dotenv.kind = "file" \/ f.compose.kind = "file" \/ f.gitignore.kind = "file")

\* Checks.nginx_config_installed: os.path.isfile of the sites-available path
nginx_config_installed(entry) == entry.kind = "file"

\* Checks.nginx_config_enabled: os.path.islink of the sites-enabled path
nginx_config_enabled_unlinked(entry) == TRUE
nginx_config_enabled(entry) == entry = "link"

\* Checks.file_exists: os.path.exists of the path
file_exists_anything(entry) == TRUE
file_exists(entry) == entry.kind # "absent"

\* Checks.perform_checks_exit, given the first of its callables that fails:
\* TRUE where it returns True, FALSE where it ends the process with status 1
perform_checks_ignored(first) == TRUE
perform_checks_exit(first) == first = "none"

\* the first check of a gate's callables that fails, in the order all() calls them
RECURSIVE FirstFailing(_, _)
FirstFailing(checks, facts) ==
    IF checks = <<>> THEN "none"
    ELSE IF ~facts[Head(checks)] THEN Head(checks)
    ELSE FirstFailing(Tail(checks), facts)

\* the checks all() gets through, with what each returned: it stops at the
\* first that fails
EvaluateAll(checks, facts) ==
    [i \in 1..Len(checks) |-> [check |-> checks[i], result |-> facts[checks[i]]]]
RECURSIVE Evaluate(_, _)
Evaluate(checks, facts) ==
    IF checks = <<>> THEN <<>>
    ELSE IF ~facts[Head(checks)] THEN <<[check |-> Head(checks), result |-> FALSE]>>
    ELSE <<[check |-> Head(checks), result |-> TRUE]>> \o Evaluate(Tail(checks), facts)

RequiredFiles == <<"docker-compose.yml", ".env", "site">>

\* the mode each check is decorated with; docker_daemon is THROW_ERROR
\* (line 246), the three warn checks are those of lines 182, 254 and 280
CheckMode(c) ==
    IF c \in {"not_already_configured", "dns", "dns_mismatch"}
    THEN "THROW_WARN" ELSE "THROW_ERROR"

\* what the wrapper of each check hands to all(), given what the check found
Returned(checks, facts, answerYes) ==
    [c \in Range(checks) |-> check(CheckMode(c), facts[c], answerYes) = "true"]

\* the prompts shown by the checks of an evaluation
AskedBy(ev, facts) ==
    IF \E i \in 1..Len(ev) : Prompted(CheckMode(ev[i].check), facts[ev[i].check])
    THEN {"continue"} ELSE {}

InstallChecks == <<"user_is_root", "docker", "docker_compose", "docker_daemon",
                   "nginx", "nginx_test_config", "systemd">>
UninstallChecks == <<"user_is_root", "docker", "docker_compose", "docker_daemon",
                     "nginx", "systemd">>
CertbotChecks == <<"nginx", "certbot">>

\* ------------------------------------------------------------ a run starts
\* argparser.parse_args(): the flags and the values of one command line
Start(a) ==
    /\ args' = a
    /\ prev' = IF pc = "done" /\ without_options(args)
                  /\ "create_dotgitignore" \in Range(trace)
               THEN [some |-> TRUE, db_mnt |-> options.db_mnt]
               ELSE NoPrev
    /\ fs0' = fs
    /\ pc' = "configure"
    /\ block' = 0
    /\ options' = NoOptions
    /\ exitCode' = -1
    /\ trace' = <<>>
    /\ failed' = {}
    /\ asked' = {}
    /\ failedCheck' = NoFail
    /\ runs' = runs + 1
    /\ evaluated' = <<>>
    /\ UNCHANGED <<fs, written, dialog>>

CommandLine(install, uninstall, certbot, cleanup, interactive, silent, cli) ==
    [install |-> install, uninstall |-> uninstall, certbot |-> certbot,
     cleanup |-> cleanup, interactive |-> interactive, silent |-> silent,
     hostname |-> cli.hostname, host_port |-> cli.host_port,
     db_mnt |-> cli.db_mnt, db_passwd |-> cli.db_passwd,
     db_root_passwd |-> cli.db_root_passwd]

\* one invocation of the script, with any flags
StartRun ==
    /\ pc = "idle"
    /\ \E install, uninstall, certbot, cleanup, interactive, silent \in BOOLEAN :
       \E cli \in CliValues :
          Start(CommandLine(install, uninstall, certbot, cleanup, interactive, silent, cli))

\* ------------------------------------------------------------ configuration
\* the dict built from the command line, Actions.configure lines 684-690
CliDict(a, tokens) ==
    [resolved |-> TRUE,
     hostname |-> a.hostname, host_port |-> a.host_port, db_mnt |-> a.db_mnt,
     db_passwd |-> IF a.db_passwd.some THEN a.db_passwd.v ELSE tokens[1],
     db_root_passwd |-> IF a.db_root_passwd.some THEN a.db_root_passwd.v ELSE tokens[2],
     extra |-> FALSE]

\* Actions.configure up to line 700: ok is FALSE where read_dotenv or int() raises
Existing(a, f, tokens) ==
    IF f.dotenv.kind = "file"
    THEN LET r == read_dotenv(f.dotenv.text) IN
         IF ~r.ok THEN [ok |-> FALSE, d |-> NoOptions]
         ELSE LET p == StrToInt(r.host_port) IN
              IF ~p.ok THEN [ok |-> FALSE, d |-> NoOptions]
              ELSE [ok |-> TRUE,
                    d |-> [resolved |-> TRUE, hostname |-> r.hostname,
                           host_port |-> p.v, db_mnt |-> r.db_mnt,
                           db_passwd |-> r.db_passwd,
                           db_root_passwd |-> r.db_root_passwd,
                           extra |-> r.extra]]
    ELSE [ok |-> TRUE, d |-> CliDict(a, tokens)]

Configure ==
    /\ pc = "configure"
    /\ \E tokens \in TokenPairs :
       LET e == Existing(args, fs, tokens) IN
       IF ~e.ok
       THEN /\ Exit(1)
            /\ options' = options
       ELSE /\ options' = e.d
            /\ Goto(IF args.interactive THEN "interactive" ELSE "conflict")
    /\ Log("configure")
    /\ UNCHANGED <<fs, fs0, args, failed, asked, failedCheck, runs, prev, written, dialog, evaluated>>

\* what Actions.configure_interactive may return: the pre-filled defaults
\* unchanged, where get_user_input accepts them, or new values for every field
Answers(defaults) ==
    (IF /\ HOSTNAME_REGEX(defaults.hostname)
        /\ PORT_REGEX(IntToStr(defaults.host_port))
        /\ PATH_REGEX(defaults.db_mnt)
     THEN {[defaults EXCEPT !.extra = FALSE]}
     ELSE {})
    \cup
    { [resolved |-> TRUE, hostname |-> HostAlt, host_port |-> PortAlt,
       db_mnt |-> MntAlt, db_passwd |-> PwPlain, db_root_passwd |-> PwPlain,
       extra |-> FALSE] }

ConfigureInteractive ==
    /\ pc = "interactive"
    /\ \E ans \in Answers(options) : options' = ans
    /\ asked' = asked \cup {"hostname", "host_port", "db_mnt", "db_passwd", "db_root_passwd"}
    /\ Goto("conflict")
    /\ Log("configure_interactive")
    /\ UNCHANGED <<fs, fs0, args, failed, failedCheck, runs, prev, written, dialog, evaluated>>

\* main() lines 937-945, then the first if-block
ConflictingArgs ==
    /\ pc = "conflict"
    /\ LET c1 == check("THROW_ERROR", conflicting_args(<<args.install, args.uninstall>>), FALSE)
           c2 == check("THROW_ERROR", conflicting_args(<<args.uninstall, args.certbot>>), FALSE)
       IN IF c1 = "raise" \/ c2 = "raise"
          THEN /\ Exit(1)
               /\ failedCheck' = Failed("main", "conflicting_args")
          ELSE /\ Proceed(1)
               /\ failedCheck' = failedCheck
    /\ Log("conflicting_args")
    /\ UNCHANGED <<fs, fs0, args, options, failed, asked, runs, prev, written, dialog, evaluated>>

\* ------------------------------------------------------------ make_configs
\* the gate of Actions.make_configs, lines 726-729; a dict with further keys
\* makes the call itself raise TypeError
MakeConfigsGate ==
    /\ pc = "mk_gate"
    /\ \E writeable, answerYes \in BOOLEAN :
       LET clean == not_already_configured(fs)
           c1 == check("THROW_ERROR", writeable, answerYes)
           c2 == check("THROW_WARN", clean, answerYes)
           returned == [n \in {"current_folder_writeable", "not_already_configured"} |->
                          IF n = "current_folder_writeable" THEN c1 = "true" ELSE c2 = "true"]
       IN IF options.extra
          THEN /\ Exit(1) /\ failedCheck' = failedCheck /\ asked' = asked
               /\ evaluated' = evaluated
          ELSE IF c1 # "true"
          THEN /\ Exit(1) /\ asked' = asked
               /\ failedCheck' = Failed("make_configs", "current_folder_writeable")
               /\ evaluated' = Evaluate(<<"current_folder_writeable">>, returned)
          ELSE /\ asked' = IF Prompted("THROW_WARN", clean)
                           THEN asked \cup {"continue"} ELSE asked
               /\ evaluated' = Evaluate(<<"current_folder_writeable",
                                          "not_already_configured">>, returned)
               /\ IF c2 # "true"
                  THEN /\ Exit(1)
                       /\ failedCheck' = Failed("make_configs", "not_already_configured")
                  ELSE Goto("mk_gitignore") /\ failedCheck' = failedCheck
    /\ Log("make_configs")
    /\ UNCHANGED <<fs, fs0, args, options, failed, runs, prev, written, dialog>>

\* raise AssertionError('... is a directory')
Raise == [kind |-> "raise"]

\* Actions.create_dotgitignore: the entry it leaves, Raise for a directory
create_dotgitignore(entry, db_mnt) ==
    IF entry.kind = "dir" THEN Raise
    ELSE IF entry.kind = "file"
    THEN IF Contains(entry.text, db_mnt) THEN entry
         ELSE File(entry.text \o <<"\n">> \o generate_dotgitignore(db_mnt))
    ELSE File(generate_dotgitignore(db_mnt))

CreateDotgitignore ==
    /\ pc = "mk_gitignore"
    /\ LET r == create_dotgitignore(fs.gitignore, options.db_mnt) IN
       IF r.kind = "raise"
       THEN Exit(1) /\ fs' = fs
       ELSE Goto("mk_git") /\ fs' = [fs EXCEPT !.gitignore = r]
    /\ Log("create_dotgitignore")
    /\ UNCHANGED <<fs0, args, options, failed, asked, failedCheck, runs, prev, written, dialog, evaluated>>

\* Actions.git_init: the status of `git init` is not looked at
GitInit ==
    /\ pc = "mk_git"
    /\ IF fs.git = "dir"
       THEN /\ UNCHANGED <<fs, failed>>
            /\ Log("git_init")
       ELSE \E ok \in BOOLEAN :
            /\ fs' = IF ok THEN [fs EXCEPT !.git = "dir"] ELSE fs
            /\ failed' = IF ok THEN failed ELSE failed \cup {"git init"}
            /\ trace' = trace \o <<"git_init", "git init">>
    /\ Goto("mk_compose")
    /\ UNCHANGED <<fs0, args, options, asked, failedCheck, runs, prev, written, dialog, evaluated>>

\* the create-or-skip policy of create_docker_compose, create_dotenv and
\* create_nginx_conf
create_or_overwrite(entry, new) ==
    IF entry.kind = "dir" THEN Raise ELSE new
create_or_skip_over_dir(entry, new) ==
    IF entry.kind = "file" THEN entry ELSE new
create_or_skip(entry, new) ==
    IF entry.kind = "dir" THEN Raise
    ELSE IF entry.kind = "file" THEN entry
    ELSE new

CreateDockerCompose ==
    /\ pc = "mk_compose"
    /\ LET r == create_or_skip(fs.compose, File(generate_docker_compose)) IN
       IF r.kind = "raise"
       THEN Exit(1) /\ fs' = fs
       ELSE Goto("mk_dotenv") /\ fs' = [fs EXCEPT !.compose = r]
    /\ Log("create_docker_compose")
    /\ UNCHANGED <<fs0, args, options, failed, asked, failedCheck, runs, prev, written, dialog, evaluated>>

CreateDotenv ==
    /\ pc = "mk_dotenv"
    /\ LET text == generate_dotenv(options.hostname, options.host_port, options.db_mnt,
                                   options.db_passwd, options.db_root_passwd)
           r == create_or_skip(fs.dotenv, File(text))
       IN IF r.kind = "raise"
          THEN Exit(1) /\ UNCHANGED <<fs, written>>
          ELSE /\ Goto("mk_nginx")
               /\ fs' = [fs EXCEPT !.dotenv = r]
               /\ written' = IF fs.dotenv.kind = "absent"
                             THEN [some |-> TRUE, text |-> text,
                                   db_passwd |-> options.db_passwd,
                                   db_root_passwd |-> options.db_root_passwd]
                             ELSE written
    /\ Log("create_dotenv")
    /\ UNCHANGED <<fs0, args, options, failed, asked, failedCheck, runs, prev, dialog, evaluated>>

\* make_configs returns into the if-block of main() that called it
CreateNginxConf ==
    /\ pc = "mk_nginx"
    /\ LET h == options.hostname
           conf == generate_nginx_conf(h, options.host_port, INTERNAL_HOST)
           r == create_or_skip(fs.sites[h], SiteFile(conf))
       IN IF r.kind = "raise"
          THEN Exit(1) /\ fs' = fs
          ELSE /\ fs' = [fs EXCEPT !.sites[h] = r]
               /\ IF block = 1 THEN Proceed(2) ELSE Goto("in_gate")
    /\ Log("create_nginx_conf")
    /\ UNCHANGED <<fs0, args, options, failed, asked, failedCheck, runs, prev, written, dialog, evaluated>>

\* ------------------------------------------------------------ install
\* Actions.install lines 748-759: the file_exists checks are arguments of
\* perform_checks_exit and so are evaluated before it runs the callables
InstallGate ==
    /\ pc = "in_gate"
    /\ \E facts \in [Range(InstallChecks) -> BOOLEAN], answerYes \in BOOLEAN :
       LET h == options.hostname
           files == RequiredFiles
           returned == Returned(InstallChecks, facts, answerYes)
           exists == [n \in Range(files) |->
                        CASE n = "docker-compose.yml" -> file_exists(fs.compose)
                          [] n = ".env" -> file_exists(fs.dotenv)
                          [] OTHER -> file_exists(fs.sites[h])]
           f1 == FirstFailing(files, exists)
           f2 == FirstFailing(InstallChecks, returned)
       IN IF f1 # "none"
          THEN /\ Exit(1) /\ failedCheck' = Failed("install", "file_exists")
               /\ evaluated' = Evaluate(files, exists)
               /\ asked' = asked
          ELSE /\ failedCheck' = IF f2 # "none" THEN Failed("install", f2) ELSE failedCheck
               /\ evaluated' = Evaluate(files, exists) \o Evaluate(InstallChecks, returned)
               /\ asked' = asked \cup AskedBy(Evaluate(InstallChecks, returned), facts)
               /\ IF perform_checks_exit(f2) THEN Goto("in_up") ELSE Exit(1)
    /\ Log("install_gate")
    /\ UNCHANGED <<fs, fs0, args, options, failed, runs, prev, written, dialog>>

\* subprocess.run(['docker-compose', 'up', '-d'], check=True)
ComposeUp ==
    /\ pc = "in_up"
    /\ \E ok \in BOOLEAN :
       IF ok THEN Goto("in_sites") /\ failed' = failed
       ELSE Exit(1) /\ failed' = failed \cup {"docker-compose up"}
    /\ Log("docker-compose up")
    /\ UNCHANGED <<fs, fs0, args, options, asked, failedCheck, runs, prev, written, dialog, evaluated>>

\* Actions.create_sites_if_not_exists
CreateSites ==
    /\ pc = "in_sites"
    /\ fs' = [fs EXCEPT !.availDir = TRUE, !.enabledDir = TRUE]
    /\ Goto("in_copy")
    /\ Log("create_sites_if_not_exists")
    /\ UNCHANGED <<fs0, args, options, failed, asked, failedCheck, runs, prev, written, dialog, evaluated>>

\* shutil.copy of the site file, line 777
CopySite ==
    /\ pc = "in_copy"
    /\ fs' = [fs EXCEPT !.avail[options.hostname] = fs.sites[options.hostname]]
    /\ Goto("in_link")
    /\ Log("copy_site")
    /\ UNCHANGED <<fs0, args, options, failed, asked, failedCheck, runs, prev, written, dialog, evaluated>>

\* lines 782-784
EnableSite ==
    /\ pc = "in_link"
    /\ fs' = [fs EXCEPT !.enabled[options.hostname] = "link"]
    /\ Goto("in_restart")
    /\ Log("symlink")
    /\ UNCHANGED <<fs0, args, options, failed, asked, failedCheck, runs, prev, written, dialog, evaluated>>

\* Actions.restart_nginx: the status of `systemctl restart nginx` is not
\* looked at; the caller goes on
restart_nginx(ok) ==
    /\ failed' = IF ok THEN failed ELSE failed \cup {"systemctl restart nginx"}
    /\ Log("systemctl restart nginx")

InstallRestart ==
    /\ pc = "in_restart"
    /\ \E ok \in BOOLEAN : restart_nginx(ok)
    /\ Proceed(4)
    /\ UNCHANGED <<fs, fs0, args, options, asked, failedCheck, runs, prev, written, dialog, evaluated>>

\* ------------------------------------------------------------ uninstall
\* Actions.uninstall lines 839-847
UninstallGate ==
    /\ pc = "un_gate"
    /\ \E facts \in [Range(UninstallChecks) -> BOOLEAN], answerYes \in BOOLEAN :
       LET returned == Returned(UninstallChecks, facts, answerYes)
           f2 == FirstFailing(UninstallChecks, returned)
           exists == [n \in {"site"} |-> file_exists(fs.avail[options.hostname])]
       IN
       IF ~exists["site"]
       THEN /\ Exit(1) /\ failedCheck' = Failed("uninstall", "file_exists")
            /\ evaluated' = Evaluate(<<"site">>, exists)
            /\ asked' = asked
       ELSE /\ failedCheck' = IF f2 # "none" THEN Failed("uninstall", f2) ELSE failedCheck
            /\ evaluated' = Evaluate(<<"site">>, exists) \o Evaluate(UninstallChecks, returned)
            /\ asked' = asked \cup AskedBy(Evaluate(UninstallChecks, returned), facts)
            /\ IF perform_checks_exit(f2) THEN Goto("un_down") ELSE Exit(1)
    /\ Log("uninstall_gate")
    /\ UNCHANGED <<fs, fs0, args, options, failed, runs, prev, written, dialog>>

\* Actions.docker_compose_down
ComposeDown ==
    /\ pc = "un_down"
    /\ \E ok \in BOOLEAN :
       IF ok THEN Goto("un_rm_enabled") /\ failed' = failed
       ELSE Exit(1) /\ failed' = failed \cup {"docker-compose down"}
    /\ Log("docker-compose down")
    /\ UNCHANGED <<fs, fs0, args, options, asked, failedCheck, runs, prev, written, dialog, evaluated>>

\* Actions.revert_nginx_conf lines 406-409: os.remove of the symlink inside
\* try/except-pass, so a missing symlink is passed over
remove_enabled_strict(entry) ==
    [raises |-> entry = "absent", entry |-> "absent"]
remove_enabled(entry) ==
    [raises |-> FALSE, entry |-> "absent"]

RemoveEnabled ==
    /\ pc = "un_rm_enabled"
    /\ LET r == remove_enabled(fs.enabled[options.hostname]) IN
       IF r.raises
       THEN Exit(1) /\ fs' = fs
       ELSE /\ fs' = [fs EXCEPT !.enabled[options.hostname] = r.entry]
            /\ Goto("un_rm_avail")
    /\ Log("remove_enabled")
    /\ UNCHANGED <<fs0, args, options, failed, asked, failedCheck, runs, prev, written, dialog, evaluated>>

\* Actions.revert_nginx_conf line 412
RemoveAvailable ==
    /\ pc = "un_rm_avail"
    /\ fs' = [fs EXCEPT !.avail[options.hostname] = SiteAbsent]
    /\ Goto("un_restart")
    /\ Log("remove_available")
    /\ UNCHANGED <<fs0, args, options, failed, asked, failedCheck, runs, prev, written, dialog, evaluated>>

\* Actions.uninstall line 857, then main() lines 960-963
UninstallRestart ==
    /\ pc = "un_restart"
    /\ \E ok \in BOOLEAN : restart_nginx(ok)
    /\ IF args.cleanup THEN Goto("cl_down") ELSE Exit(0)
    /\ UNCHANGED <<fs, fs0, args, options, asked, failedCheck, runs, prev, written, dialog, evaluated>>

\* ------------------------------------------------------------ cleanup
\* Actions.cleanup lines 800-802
CleanupDown ==
    /\ pc = "cl_down"
    /\ \E ok \in BOOLEAN :
       IF ok THEN Goto("cl_files") /\ failed' = failed
       ELSE Exit(1) /\ failed' = failed \cup {"docker-compose down --volumes"}
    /\ trace' = trace \o <<"cleanup", "docker-compose down --volumes">>
    /\ UNCHANGED <<fs, fs0, args, options, asked, failedCheck, runs, prev, written, dialog, evaluated>>

\* os.remove of a path that is a regular file, lines 806-811
RemoveIfFile(entry) == IF entry.kind = "file" THEN Absent ELSE entry

CleanupFiles ==
    /\ pc = "cl_files"
    /\ fs' = [fs EXCEPT !.dotenv = RemoveIfFile(fs.dotenv),
                        !.compose = RemoveIfFile(fs.compose),
                        !.gitignore = RemoveIfFile(fs.gitignore)]
    /\ written' = IF fs.dotenv.kind = "file" THEN NotWritten ELSE written
    /\ Goto("cl_git")
    /\ Log("remove_files")
    /\ UNCHANGED <<fs0, args, options, failed, asked, failedCheck, runs, prev, dialog, evaluated>>

\* Actions.remove_git: the status of `rm -rf .git` is not looked at
RemoveGit ==
    /\ pc = "cl_git"
    /\ IF fs.git # "dir"
       THEN /\ UNCHANGED <<fs, failed>>
            /\ Log("remove_git")
       ELSE \E ok \in BOOLEAN :
            /\ fs' = IF ok THEN [fs EXCEPT !.git = "absent"] ELSE fs
            /\ failed' = IF ok THEN failed ELSE failed \cup {"rm -rf .git"}
            /\ trace' = trace \o <<"remove_git", "rm -rf .git">>
    /\ Goto("cl_sites")
    /\ UNCHANGED <<fs0, args, options, asked, failedCheck, runs, prev, written, dialog, evaluated>>

\* lines 815-817: os.listdir gives the names in no fixed order, and os.remove
\* of a directory raises, after the files listed before it were removed
CleanupSites ==
    /\ pc = "cl_sites"
    /\ LET files == {h \in Hosts : fs.sites[h].kind = "file"}
           dirs == {h \in Hosts : fs.sites[h].kind = "dir"}
       IN IF dirs = {}
          THEN /\ fs' = [fs EXCEPT !.sites = [h \in Hosts |-> SiteAbsent]]
               /\ IF block = 2 THEN Proceed(3) ELSE Exit(0)
          ELSE /\ \E gone \in SUBSET files :
                  fs' = [fs EXCEPT !.sites =
                            [h \in Hosts |-> IF h \in gone THEN SiteAbsent ELSE fs.sites[h]]]
               /\ Exit(1)
    /\ Log("remove_sites")
    /\ UNCHANGED <<fs0, args, options, failed, asked, failedCheck, runs, prev, written, dialog, evaluated>>

\* ------------------------------------------------------------ certbot
\* main() lines 966-969: both checks are arguments, evaluated in order
CertbotGate ==
    /\ pc = "cb_gate"
    /\ LET h == options.hostname
           facts == [n \in {"nginx_config_installed", "nginx_config_enabled"} |->
                       IF n = "nginx_config_installed"
                       THEN nginx_config_installed(fs.avail[h])
                       ELSE nginx_config_enabled(fs.enabled[h])]
       IN
       /\ evaluated' = Evaluate(<<"nginx_config_installed", "nginx_config_enabled">>, facts)
       /\ IF check("THROW_ERROR", facts["nginx_config_installed"], FALSE) = "raise"
          THEN Exit(1) /\ failedCheck' = Failed("main", "nginx_config_installed")
          ELSE IF check("THROW_ERROR", facts["nginx_config_enabled"], FALSE) = "raise"
          THEN Exit(1) /\ failedCheck' = Failed("main", "nginx_config_enabled")
          ELSE Goto("cb_checks") /\ failedCheck' = failedCheck
    /\ Log("certbot_gate")
    /\ UNCHANGED <<fs, fs0, args, options, failed, asked, runs, prev, written, dialog>>

\* Actions.certbot lines 867-870
CertbotChecksGate ==
    /\ pc = "cb_checks"
    /\ \E facts \in [Range(CertbotChecks) -> BOOLEAN], answerYes \in BOOLEAN :
       LET returned == Returned(CertbotChecks, facts, answerYes)
           f == FirstFailing(CertbotChecks, returned)
       IN
       /\ failedCheck' = IF f # "none" THEN Failed("certbot", f) ELSE failedCheck
       /\ evaluated' = Evaluate(CertbotChecks, returned)
       /\ asked' = asked \cup AskedBy(Evaluate(CertbotChecks, returned), facts)
       /\ IF perform_checks_exit(f) THEN Goto("cb_dns") ELSE Exit(1)
    /\ Log("certbot_checks")
    /\ UNCHANGED <<fs, fs0, args, options, failed, runs, prev, written, dialog>>

\* Checks.dns lines 259-277: the loop ends when the name resolves (break,
\* then dns_mismatch is called) or when the operator interrupts (the except
\* clause returns True); raises is TRUE where KeyboardInterrupt leaves dns
dns_always_mismatch(resolved) ==
    [raises |-> FALSE, mismatch |-> TRUE,
     event |-> IF resolved THEN "dns_resolved" ELSE "dns_interrupted"]
dns_uncaught(resolved) ==
    [raises |-> ~resolved, mismatch |-> resolved,
     event |-> IF resolved THEN "dns_resolved" ELSE "dns_interrupted"]
dns(resolved) ==
    [raises |-> FALSE, mismatch |-> resolved,
     event |-> IF resolved THEN "dns_resolved" ELSE "dns_interrupted"]

\* Checks.dns lines 266-270: gethostbyname raised gaierror; the first time
\* the latch is set and the waiting message printed, then the loop sleeps and
\* tries again
DnsPoll ==
    /\ pc = "cb_dns"
    /\ trace' = IF "dns_waiting" \in Range(trace) THEN trace
                ELSE Append(trace, "dns_waiting")
    /\ UNCHANGED <<fs, fs0, pc, block, args, options, exitCode, failed, asked, failedCheck,
                   runs, prev, written, dialog, evaluated>>

\* the loop is left: the name resolved or the operator pressed CTRL+C
DnsWait ==
    /\ pc = "cb_dns"
    /\ \E resolved \in BOOLEAN :
       LET r == dns(resolved) IN
       /\ Log(r.event)
       /\ IF r.raises THEN Exit(1)
          ELSE IF r.mismatch THEN Goto("cb_mismatch")
          ELSE Goto("cb_run")
    /\ UNCHANGED <<fs, fs0, args, options, failed, asked, failedCheck, runs, prev, written, dialog, evaluated>>

\* Checks.dns line 275: the result of dns_mismatch is dropped, and so is the
\* result of Checks.dns at line 872
DnsMismatch ==
    /\ pc = "cb_mismatch"
    /\ \E match, answerYes \in BOOLEAN :
       /\ asked' = IF Prompted("THROW_WARN", match) THEN asked \cup {"continue"} ELSE asked
       /\ trace' = Append(trace, IF check("THROW_WARN", match, answerYes) = "true"
                                 THEN "dns_mismatch" ELSE "dns_mismatch_declined")
    /\ Goto("cb_run")
    /\ UNCHANGED <<fs, fs0, args, options, failed, failedCheck, runs, prev, written, dialog, evaluated>>

\* Actions.certbot line 876: the status of certbot is not looked at
RunCertbot ==
    /\ pc = "cb_run"
    /\ \E ok \in BOOLEAN :
       failed' = IF ok THEN failed ELSE failed \cup {"certbot"}
    /\ Log("certbot")
    /\ Proceed(6)
    /\ UNCHANGED <<fs, fs0, args, options, asked, failedCheck, runs, prev, written, dialog, evaluated>>

\* ------------------------------------------------------------ specifications
Generation ==
    \/ Configure
    \/ ConfigureInteractive
    \/ ConflictingArgs
    \/ MakeConfigsGate
    \/ CreateDotgitignore
    \/ GitInit
    \/ CreateDockerCompose
    \/ CreateDotenv
    \/ CreateNginxConf

Next ==
    \/ StartRun
    \/ Generation
    \/ InstallGate
    \/ ComposeUp
    \/ CreateSites
    \/ CopySite
    \/ EnableSite
    \/ InstallRestart
    \/ UninstallGate
    \/ ComposeDown
    \/ RemoveEnabled
    \/ RemoveAvailable
    \/ UninstallRestart
    \/ CleanupDown
    \/ CleanupFiles
    \/ RemoveGit
    \/ CleanupSites
    \/ CertbotGate
    \/ CertbotChecksGate
    \/ DnsPoll
    \/ DnsWait
    \/ DnsMismatch
    \/ RunCertbot

\* one invocation of the script in any of the initial directories
Spec == Init /\ [][Next]_vars

\* an invocation with --certbot alone
StartCertbot ==
    /\ pc = "idle"
    /\ \E interactive, silent \in BOOLEAN :
       \E cli \in CliValues :
          Start(CommandLine(FALSE, FALSE, TRUE, FALSE, interactive, silent, cli))

NextDns ==
    \/ StartCertbot
    \/ Configure
    \/ ConfigureInteractive
    \/ ConflictingArgs
    \/ CertbotGate
    \/ CertbotChecksGate
    \/ DnsPoll
    \/ DnsWait
    \/ DnsMismatch
    \/ RunCertbot

\* issue-certificate mode in which, while Checks.dns polls, the hostname
\* eventually resolves or the operator eventually presses CTRL+C
SpecDns == Init /\ [][NextDns]_vars /\ WF_vars(DnsWait)

\* a default-mode run after the one before, up to MaxRuns of them
Rerun ==
    /\ pc \in {"idle", "done"}
    /\ runs < MaxRuns
    /\ \E interactive, silent \in BOOLEAN :
       \E cli \in CliValues :
          Start(CommandLine(FALSE, FALSE, FALSE, FALSE, interactive, silent, cli))

InitRerun ==
    /\ fs \in {Merge(d, NoNginx) : d \in InitialDirs}
    /\ InitRun

NextRerun == Rerun \/ Generation

\* successive default-mode invocations in the same directory
SpecRerun == InitRerun /\ [][NextRerun]_vars

\* ------------------------------------------------------------ interactive mode
\* the five get_user_input calls of Actions.configure_interactive, lines 666-671
Fields ==
    << [name |-> "hostname", T |-> "str", regex |-> "HOSTNAME_REGEX"],
       [name |-> "host_port", T |-> "int", regex |-> "PORT_REGEX"],
       [name |-> "db_mnt", T |-> "str", regex |-> "PATH_REGEX"],
       [name |-> "db_passwd", T |-> "str", regex |-> "none"],
       [name |-> "db_root_passwd", T |-> "str", regex |-> "none"] >>

\* what the operator may type at a prompt
Typed == {<<>>, HostAlt, HostSpaced, IntToStr(PortAlt), SixDigits, MntSpaced, PwPadded}

\* re.match(regex, arg), always a match where regex is None
Match(regex, arg) ==
    CASE regex = "HOSTNAME_REGEX" -> HOSTNAME_REGEX(arg)
      [] regex = "PORT_REGEX" -> PORT_REGEX(arg)
      [] regex = "PATH_REGEX" -> PATH_REGEX(arg)
      [] OTHER -> TRUE

\* Checks.type_convertable: the assert on the match, then T(arg)
type_convertable_any(arg, T, regex) == TRUE
type_convertable(arg, T, regex) ==
    Match(regex, arg) /\ (T = "int" => StrToInt(arg).ok)

\* Actions.convert_argument: type_convertable is THROW_ERROR and is evaluated
\* as the argument of perform_checks_exit, so a failure leaves
\* convert_argument as AssertionError
convert_argument(arg, T, regex) ==
    IF check("THROW_ERROR", type_convertable(arg, T, regex), FALSE) = "raise"
    THEN Raise
    ELSE [kind |-> "value", v |-> IF T = "int" THEN StrToInt(arg).v ELSE arg]

\* one turn of the loop of Actions.get_user_input for the field being asked:
\* AssertionError is caught and the loop goes round again
GetUserInput ==
    /\ pc = "interactive"
    /\ dialog.field \in 1..Len(Fields)
    /\ \E a \in Typed :
       LET f == Fields[dialog.field]
           c == convert_argument(a, f.T, f.regex)
           typed == [some |-> TRUE, field |-> dialog.field, text |-> a]
       IN /\ asked' = asked \cup {f.name}
          /\ IF c.kind = "raise"
             THEN /\ dialog.tries < MaxRetries
                  /\ dialog' = [dialog EXCEPT !.tries = @ + 1, !.last = typed]
             ELSE dialog' = [field |-> dialog.field + 1, tries |-> 0,
                             values |-> [dialog.values EXCEPT ![f.name] = c.v],
                             last |-> typed]
    /\ UNCHANGED <<fs, fs0, pc, block, args, options, exitCode, trace, failed,
                   failedCheck, runs, prev, written, evaluated>>

\* Actions.configure_interactive returns the dict of the five answers and
\* Actions.configure returns it, lines 673-679 and 703-716
ReturnAnswers ==
    /\ pc = "interactive"
    /\ dialog.field = Len(Fields) + 1
    /\ options' = [dialog.values EXCEPT !.extra = FALSE]
    /\ Goto("conflict")
    /\ Log("configure_interactive")
    /\ UNCHANGED <<fs, fs0, args, failed, asked, failedCheck, runs, prev, written,
                   dialog, evaluated>>

\* Actions.configure has built the dict from the command line in a directory
\* without .env and enters interactive mode
InitInteractive ==
    /\ fs = Merge(EmptyDir, NoNginx)
    /\ fs0 = fs
    /\ pc = "interactive"
    /\ block = 0
    /\ \E silent \in BOOLEAN : \E cli \in CliValues :
          args = CommandLine(FALSE, FALSE, FALSE, FALSE, TRUE, silent, cli)
    /\ \E tokens \in TokenPairs : options = CliDict(args, tokens)
    /\ exitCode = -1
    /\ trace = <<"configure">>
    /\ failed = {}
    /\ asked = {}
    /\ failedCheck = NoFail
    /\ runs = 1
    /\ prev = NoPrev
    /\ written = NotWritten
    /\ dialog = [field |-> 1, tries |-> 0, values |-> options, last |-> NoAnswer]
    /\ evaluated = <<>>

NextInteractive == GetUserInput \/ ReturnAnswers

\* the dialogue of interactive mode, up to MaxRetries rejected answers a field
SpecInteractive == InitInteractive /\ [][NextInteractive]_vars

\* strings handed to convert_argument for the hostname field: the examples
\* the grammar is documented with, and every string of up to MaxLen
\* characters over a letter of each case, a digit, the dot, and characters
\* outside the labels' alphabet
ExampleCom == <<"e", "x", "a", "m", "p", "l", "e", ".", "c", "o", "m">>
ExaMpleCom == <<"e", "x", "a", " ", "m", "p", "l", "e", ".", "c", "o", "m">>
DashBadCom == <<"-", "b", "a", "d", ".", "c", "o", "m">>
HostAlphabet == {"a", "Z", "1", ".", " ", "-", "\n"}
HostnameAnswers ==
    {ExampleCom, <<"a", ".", "b", ".", "c">>, HOSTNAME, ExaMpleCom, DashBadCom}
    \cup UNION {[1..k -> HostAlphabet] : k \in 0..MaxLen}

\* the first turn of get_user_input for the hostname field, lines 642-660,
\* with convert_argument applied to any of these strings
ValidateHostname ==
    /\ pc = "interactive"
    /\ dialog.field = 1 /\ ~dialog.last.some
    /\ \E a \in HostnameAnswers :
       LET c == convert_argument(a, "str", "HOSTNAME_REGEX")
           typed == [some |-> TRUE, field |-> 1, text |-> a]
       IN /\ asked' = asked \cup {"hostname"}
          /\ dialog' = IF c.kind = "raise"
                        THEN [dialog EXCEPT !.tries = @ + 1, !.last = typed]
                        ELSE [field |-> 2, tries |-> 0,
                              values |-> [dialog.values EXCEPT !.hostname = c.v],
                              last |-> typed]
    /\ UNCHANGED <<fs, fs0, pc, block, args, options, exitCode, trace, failed,
                   failedCheck, runs, prev, written, evaluated>>

\* the hostname grammar applied to one answer
SpecGrammar == InitInteractive /\ [][ValidateHostname]_vars

\* KeyboardInterrupt raised while the step at pc is running, anywhere but in
\* the polling loop of Checks.dns (DnsWait has that case). perform_checks_exit
\* (lines 336-338) and main() (lines 974-977) end the process with status 1;
\* the bare except of Actions.revert_nginx_conf (lines 406-409) swallows it,
\* with the symlink removed or not, and the run goes on.
Interrupt ==
    /\ pc \notin {"idle", "done", "cb_dns"}
    /\ IF pc = "un_rm_enabled"
       THEN /\ \E removed \in BOOLEAN :
               fs' = IF removed THEN [fs EXCEPT !.enabled[options.hostname] = "absent"]
                     ELSE fs
            /\ Goto("un_rm_avail")
            /\ trace' = trace \o <<"interrupt", "remove_enabled">>
       ELSE /\ fs' = fs
            /\ Exit(1)
            /\ Log("interrupt")
    /\ UNCHANGED <<fs0, args, options, failed, asked, failedCheck, runs, prev, written, dialog, evaluated>>

NextInterrupt == Next \/ Interrupt

\* one invocation of the script during which the operator may interrupt
SpecInterrupt == Init /\ [][NextInterrupt]_vars

\* ------------------------------------------------------------ claims
Running == pc # "idle"
Conflict(a) == (a.install /\ a.uninstall) \/ (a.uninstall /\ a.certbot)
Events == Range(trace)

\* the steps of the trace that belong to the set S, in order
Only(S) == LET T(e) == e \in S IN SelectSeq(trace, T)

IsPrefix(p, s) == Len(p) <= Len(s) /\ SubSeq(s, 1, Len(p)) = p

\* invocations of the tools main() drives, as they appear in the trace
ToolEvents ==
    {"git init", "docker-compose up", "docker-compose down",
     "docker-compose down --volumes", "systemctl restart nginx", "certbot"}

NginxPart(f) == <<f.availDir, f.enabledDir, f.avail, f.enabled>>
WorkDir(f) ==
    [dotenv |-> f.dotenv, compose |-> f.compose, gitignore |-> f.gitignore,
     git |-> f.git, sites |-> f.sites]

\* the steps of issue-certificate mode that follow the gate of main()
AfterCertbotGate ==
    {"certbot_checks", "dns_waiting", "dns_resolved", "dns_interrupted", "dns_mismatch",
     "dns_mismatch_declined", "certbot"}

C2_PasswordsPersist ==
    (Running /\ written.some /\ fs0.dotenv.kind = "file" /\ ~args.cleanup) =>
        /\ fs.dotenv = File(written.text)
        /\ (~args.interactive /\ pc # "configure") =>
              /\ options.resolved
              /\ options.db_passwd = written.db_passwd
              /\ options.db_root_passwd = written.db_root_passwd

\* C3: with --install and --uninstall, or --uninstall and --certbot, the run
\* ends with status 1 at the conflicting-arguments check: no file is created,
\* changed or removed and no tool is invoked.
C3_ConflictNoEffect ==
    (Running /\ Conflict(args)) =>
        /\ fs = fs0
        /\ Events \cap ToolEvents = {}
        /\ failed = {}
        /\ pc \in {"configure", "interactive", "conflict", "done"}
        /\ (pc = "done" => exitCode = 1)

C3_Witness ==
    /\ pc = "done" /\ exitCode = 1
    /\ args.install /\ args.uninstall
    /\ failedCheck = Failed("main", "conflicting_args")

\* C4: a value flag given on the command line (a value other than the
\* built-in default) takes priority over the value the environment file
\* holds for the field.
C4_CliOverridesEnv ==
    (Running /\ options.resolved /\ ~args.interactive /\ fs0.dotenv.kind = "file") =>
        /\ (args.hostname # HOSTNAME => options.hostname = args.hostname)
        /\ (args.host_port # PORT => options.host_port = args.host_port)
        /\ (args.db_mnt # MNT_FOLDER => options.db_mnt = args.db_mnt)
        /\ (args.db_passwd.some => options.db_passwd = args.db_passwd.v)
        /\ (args.db_root_passwd.some => options.db_root_passwd = args.db_root_passwd.v)

\* C5: when an invoked tool returns a non-zero status the run stops at that
\* step with exit status 1.
C5_ToolFailureAborts ==
    (failed \cap ToolEvents # {}) =>
        /\ pc = "done"
        /\ exitCode = 1
        /\ trace[Len(trace)] \in failed

\* C6: with --silent no confirmation prompt is shown.
C6_SilentNoPrompt ==
    (Running /\ args.silent) => "continue" \notin asked

\* C7 as stated: in an install run whose gate fails no external tool has been
\* invoked.
C7_GateFailsNoTool ==
    (args.install /\ pc = "done" /\ trace # <<>> /\ trace[Len(trace)] = "install_gate")
        => Events \cap ToolEvents = {}

InstallOrder ==
    <<"configure", "conflicting_args", "make_configs", "create_dotgitignore", "git_init",
      "create_docker_compose", "create_dotenv", "create_nginx_conf", "install_gate",
      "docker-compose up", "create_sites_if_not_exists", "copy_site", "symlink",
      "systemctl restart nginx">>

\* C7 as amended: in an install run the steps occur in the order of
\* InstallOrder, each only after all earlier ones; until the site directories
\* are ensured the proxy daemon's directories are as the run found them, so a
\* failing gate leaves them untouched, with the services not brought up and
\* the daemon not restarted; the daemon is restarted only with the symlink
\* in place.
C7_InstallOrder ==
    (Running /\ args.install /\ ~Conflict(args)) =>
        /\ IsPrefix(Only(Range(InstallOrder)), InstallOrder)
        /\ ("create_sites_if_not_exists" \notin Events => NginxPart(fs) = NginxPart(fs0))
        /\ (failedCheck.gate = "install" =>
               /\ pc = "done" /\ exitCode = 1 /\ trace[Len(trace)] = "install_gate"
               /\ Events \cap {"docker-compose up", "systemctl restart nginx"} = {}
               /\ NginxPart(fs) = NginxPart(fs0))
        /\ ("systemctl restart nginx" \in Events =>
               fs.enabled[options.hostname] = "link")

\* an install run in a directory it had to fill went through to the restart
\* and enabled a site that was not enabled before
C7_Witness ==
    /\ args.install /\ pc = "done" /\ exitCode = 0
    /\ Only(Range(InstallOrder)) = InstallOrder
    /\ fs0.dotenv.kind = "absent"
    /\ fs0.enabled[options.hostname] = "absent"
    /\ fs.enabled[options.hostname] = "link"

UninstallOrder ==
    <<"uninstall_gate", "docker-compose down", "remove_enabled", "remove_available",
      "systemctl restart nginx">>
CleanupOrder(withGit) ==
    <<"cleanup", "docker-compose down --volumes", "remove_files", "remove_git">>
    \o (IF withGit THEN <<"rm -rf .git">> ELSE <<>>) \o <<"remove_sites">>

\* C8: an --uninstall run that finds no site file for the resolved hostname
\* in sites-available ends with status 1, with no file changed, the services
\* not brought down and the daemon not restarted.
C8_UninstallNeedsAvailable ==
    (Running /\ args.uninstall /\ pc \notin {"configure", "interactive"}
        /\ options.resolved /\ fs0.avail[options.hostname].kind = "absent") =>
        /\ fs = fs0
        /\ Events \cap ToolEvents = {}
        /\ (pc = "done" => exitCode = 1)

C8_Witness ==
    /\ args.uninstall /\ ~args.install /\ ~args.certbot
    /\ pc = "done" /\ exitCode = 1
    /\ failedCheck = Failed("uninstall", "file_exists")
    /\ fs0.avail[options.hostname].kind = "absent"

C10_CleanupLeavesNothing ==
    (trace # <<>> /\ trace[Len(trace)] = "remove_sites"
        /\ ~(pc = "done" /\ exitCode = 1)) =>
        /\ fs.dotenv.kind # "file"
        /\ fs.compose.kind # "file"
        /\ fs.gitignore.kind # "file"
        /\ fs.git # "dir"
        /\ \A h \in Hosts : fs.sites[h].kind # "file"
        /\ IsPrefix(<<"cleanup", "docker-compose down --volumes", "remove_files">>,
                    Only(Range(CleanupOrder(TRUE))))

\* C11: in a run with --certbot nothing of Actions.certbot (its checks, the
\* DNS check, the issuer) happens unless the gate of main() found the site
\* file of the resolved hostname in sites-available and its sites-enabled
\* entry a symlink; when the gate finds either missing the run ends there
\* with status 1.
C11_CertbotNeedsEnabled ==
    (Running /\ args.certbot) =>
        /\ (Events \cap AfterCertbotGate # {} =>
               /\ "certbot_gate" \in Events
               /\ fs.avail[options.hostname].kind = "file"
               /\ fs.enabled[options.hostname] = "link")
        /\ (("certbot_gate" \in Events
                /\ (fs.avail[options.hostname].kind # "file"
                       \/ fs.enabled[options.hostname] # "link")) =>
               /\ pc = "done" /\ exitCode = 1
               /\ trace[Len(trace)] = "certbot_gate"
               /\ failedCheck.gate = "main")

\* a --certbot run for a site that is installed but not enabled stopped at
\* the gate
C11_Witness ==
    /\ args.certbot /\ ~args.install
    /\ pc = "done" /\ exitCode = 1
    /\ failedCheck = Failed("main", "nginx_config_enabled")
    /\ fs.avail[options.hostname].kind = "file"
    /\ fs.enabled[options.hostname] = "absent"

\* C12: when the operator declines the prompt of a warn check the run ends
\* with status 1 at that check and no later step runs; a declined public-IP
\* mismatch means certbot is not invoked.
C12_DeclineAborts ==
    /\ (failedCheck = Failed("make_configs", "not_already_configured") =>
           pc = "done" /\ exitCode = 1 /\ trace[Len(trace)] = "make_configs")
    /\ ("dns_mismatch_declined" \in Events =>
           /\ pc = "done" /\ exitCode = 1
           /\ trace[Len(trace)] = "dns_mismatch_declined"
           /\ "certbot" \notin Events)

\* C13: an interrupt during the polling of Checks.dns does not end the run:
\* the public-IP check is skipped, certbot is the next step, and the run
\* ends with certbot invoked and status 0.
C13_DnsInterruptProceeds ==
    ("dns_interrupted" \in Events) =>
        /\ pc \in {"cb_run", "done"}
        /\ Events \cap {"dns_resolved", "dns_mismatch", "dns_mismatch_declined"} = {}
        /\ (pc = "cb_run" => trace[Len(trace)] = "dns_interrupted" /\ exitCode = -1)
        /\ (pc = "done" => trace[Len(trace)] = "certbot" /\ exitCode = 0)

C13_Witness ==
    /\ "dns_interrupted" \in Events
    /\ pc = "done" /\ exitCode = 0
    /\ "certbot" \in Events

\* C14: an interrupt received anywhere but in the DNS polling loop ends the
\* run with status 1 at the interrupted step; nothing runs after it.
C14_InterruptAborts ==
    ("interrupt" \in Events) =>
        /\ pc = "done" /\ exitCode = 1
        /\ trace[Len(trace)] = "interrupt"

\* C15: parsing the environment file that create_dotenv rendered from the
\* resolved record gives back the record's hostname, port, mount path and
\* both passwords.
C15_RoundTrip ==
    (Running /\ written.some /\ options.resolved) =>
        LET r == read_dotenv(written.text) IN
        /\ r.ok
        /\ r.hostname = options.hostname
        /\ r.host_port = IntToStr(options.host_port)
        /\ r.db_mnt = options.db_mnt
        /\ r.db_passwd = options.db_passwd
        /\ r.db_root_passwd = options.db_root_passwd

\* C16: every record Actions.configure returns has a hostname that matches
\* HOSTNAME_REGEX, a port whose numeral matches PORT_REGEX and a mount path
\* that matches PATH_REGEX.
C16_ResolvedWellFormed ==
    options.resolved =>
        /\ HOSTNAME_REGEX(options.hostname)
        /\ PORT_REGEX(IntToStr(options.host_port))
        /\ PATH_REGEX(options.db_mnt)

\* C17: a run with no flags in a writable directory that holds none of the
\* artifacts ends with status 0 having asked nothing, with the environment
\* file, the manifest, the ignore file and the site file for localhost and
\* port 8080 created and with a .git directory.
C17_FreshDirectory ==
    (/\ pc = "done"
     /\ without_options(args) /\ ~args.interactive /\ ~args.silent
     /\ args.hostname = HOSTNAME /\ args.host_port = PORT /\ args.db_mnt = MNT_FOLDER
     /\ ~args.db_passwd.some /\ ~args.db_root_passwd.some
     /\ WorkDir(fs0) = EmptyDir
     /\ failedCheck # Failed("make_configs", "current_folder_writeable")) =>
        /\ exitCode = 0
        /\ asked = {}
        /\ \E t \in TokenPairs :
              fs.dotenv = File(generate_dotenv(HOSTNAME, PORT, MNT_FOLDER, t[1], t[2]))
        /\ fs.compose = File(generate_docker_compose)
        /\ fs.gitignore = File(generate_dotgitignore(MNT_FOLDER))
        /\ fs.sites[HOSTNAME] = SiteFile(generate_nginx_conf(HOSTNAME, PORT, INTERNAL_HOST))
        /\ fs.git = "dir"

\* C18: after an install run that generated its site file and ended with
\* status 0, the file in sites-available is the site file for the hostname
\* and the port the environment file holds.
C18_InstalledMatchesEnv ==
    (/\ args.install /\ pc = "done" /\ exitCode = 0
     /\ "symlink" \in Events
     /\ fs0.sites[options.hostname].kind = "absent") =>
        LET r == read_dotenv(fs.dotenv.text) IN
        /\ fs.dotenv.kind = "file"
        /\ r.ok
        /\ StrToInt(r.host_port).ok
        /\ r.hostname \in Hosts
        /\ fs.avail[r.hostname] =
              SiteFile(generate_nginx_conf(r.hostname, StrToInt(r.host_port).v, INTERNAL_HOST))

\* the grammar of the field of Actions.configure_interactive with index k
Grammatical(k, text) ==
    CASE k = 1 -> HOSTNAME_REGEX(text)
      [] k = 2 -> PORT_REGEX(text)
      [] k = 3 -> PATH_REGEX(text)
      [] OTHER -> TRUE

\* C19: in interactive mode an answer that fails the grammar of its field
\* does not end the process and is not accepted, the same field is asked
\* again; the hostname, port and mount path accepted, and those of the
\* record returned, satisfy their grammars.
C19_InvalidRetried ==
    /\ exitCode = -1
    /\ (dialog.last.some /\ ~Grammatical(dialog.last.field, dialog.last.text)) =>
           /\ pc = "interactive"
           /\ dialog.field = dialog.last.field
           /\ dialog.tries >= 1
    /\ (dialog.field > 1 => HOSTNAME_REGEX(dialog.values.hostname))
    /\ (dialog.field > 2 => PORT_REGEX(IntToStr(dialog.values.host_port)))
    /\ (dialog.field > 3 => PATH_REGEX(dialog.values.db_mnt))
    /\ (pc = "conflict" =>
           /\ HOSTNAME_REGEX(options.hostname)
           /\ PORT_REGEX(IntToStr(options.host_port))
           /\ PATH_REGEX(options.db_mnt))

\* the operator has typed a six-digit port MaxRetries times and is still
\* being asked for the port
C19_Witness ==
    /\ pc = "interactive"
    /\ dialog.field = 2
    /\ dialog.tries = MaxRetries
    /\ dialog.last = [some |-> TRUE, field |-> 2, text |-> SixDigits]

\* the names of the checks of an evaluation, in order
CheckNames(ev) == [i \in 1..Len(ev) |-> ev[i].check]

\* the state a gate of Actions.install, Actions.uninstall or Actions.certbot
\* has just left
AfterGate(event) == trace # <<>> /\ trace[Len(trace)] = event

\* every check evaluated but the last returned True, the run was ended with
\* status 1 exactly when the last did not, and that check is the one recorded
\* as failing
StopsAtFirstFailure(gate) ==
    /\ evaluated # <<>>
    /\ \A i \in 1..(Len(evaluated) - 1) : evaluated[i].result
    /\ (pc = "done") = ~evaluated[Len(evaluated)].result
    /\ (pc = "done" => exitCode = 1 /\ failedCheck.gate = gate)

\* C20 as stated: the install gate evaluates its checks in the order of the
\* call, the elevated-privilege check first and the required-file checks last.
C20_ListedOrder ==
    AfterGate("install_gate") =>
        IsPrefix(CheckNames(evaluated), InstallChecks \o RequiredFiles)

\* C20 as amended: the required-file checks of the install gate, being
\* arguments, are evaluated first and all pass; the other checks follow in the
\* order listed, elevated privilege first, up to the first that fails, which
\* is the one that ends the run; the uninstall and certbot gates evaluate
\* their checks in the order listed and stop in the same way.
C20_GateOrder ==
    /\ AfterGate("install_gate") =>
           /\ IsPrefix(CheckNames(evaluated), RequiredFiles \o InstallChecks)
           /\ Len(evaluated) > Len(RequiredFiles)
           /\ evaluated[Len(RequiredFiles) + 1].check = "user_is_root"
           /\ StopsAtFirstFailure("install")
           /\ (pc = "done" => failedCheck.check = evaluated[Len(evaluated)].check)
           /\ (pc # "done" => Len(evaluated) = Len(RequiredFiles) + Len(InstallChecks))
    /\ AfterGate("uninstall_gate") =>
           /\ IsPrefix(CheckNames(evaluated), <<"site">> \o UninstallChecks)
           /\ StopsAtFirstFailure("uninstall")
           /\ (pc # "done" => Len(evaluated) = 1 + Len(UninstallChecks))
    /\ AfterGate("certbot_checks") =>
           /\ IsPrefix(CheckNames(evaluated), CertbotChecks)
           /\ StopsAtFirstFailure("certbot")
           /\ (pc = "done" => failedCheck.check = evaluated[Len(evaluated)].check)
           /\ (pc # "done" => Len(evaluated) = Len(CertbotChecks))

\* the install gate ended the run at docker_daemon, the required files and
\* the three checks listed before it having passed
C20_Witness ==
    /\ AfterGate("install_gate")
    /\ pc = "done" /\ exitCode = 1
    /\ failedCheck = Failed("install", "docker_daemon")
    /\ Len(evaluated) = Len(RequiredFiles) + 4
    /\ ~evaluated[Len(evaluated)].result

\* C21: when docker_daemon finds the daemon unreachable in the install or the
\* uninstall gate the operator is asked whether to continue, so a run that
\* the check ends is one in which the prompt was shown (and declined).
C21_DaemonWarnConfirm ==
    /\ (failedCheck = Failed("uninstall", "docker_daemon") => "continue" \in asked)
    /\ ((failedCheck = Failed("install", "docker_daemon")
            /\ ~args.cleanup /\ not_already_configured(fs0)) => "continue" \in asked)

\* C22: when the path of one of the four generated artifacts is a directory,
\* the generation step that meets it ends the run with status 1, the
\* directory stays as it was, no later generation step runs, and what the
\* earlier steps of the same run wrote stays written.
GenerationSteps ==
    <<"create_dotgitignore", "git_init", "create_docker_compose",
      "create_dotenv", "create_nginx_conf">>

\* the run ended in the k-th generation step, exit 1, none of the later ones ran
StoppedAtStep(k) ==
    /\ pc = "done" /\ exitCode = 1
    /\ trace[Len(trace)] = GenerationSteps[k]
    /\ \A j \in (k + 1)..Len(GenerationSteps) : GenerationSteps[j] \notin Events

\* the ignore file and the manifest as the earlier steps left them
IgnoreKept ==
    /\ fs.gitignore.kind = "file"
    /\ Contains(fs.gitignore.text, options.db_mnt)
ComposeKept ==
    fs.compose = IF fs0.compose.kind = "file" THEN fs0.compose
                 ELSE File(generate_docker_compose)

C22_DirectoryCollision ==
    /\ (fs0.gitignore.kind = "dir" /\ "create_dotgitignore" \in Events)
          => (StoppedAtStep(1) /\ fs = fs0)
    /\ (fs0.compose.kind = "dir" /\ "create_docker_compose" \in Events)
          => (StoppedAtStep(3) /\ fs.compose = Dir /\ IgnoreKept)
    /\ (fs0.dotenv.kind = "dir" /\ "create_dotenv" \in Events)
          => (StoppedAtStep(4) /\ fs.dotenv = Dir /\ IgnoreKept /\ ComposeKept)
    /\ (options # NoOptions /\ "create_nginx_conf" \in Events
            /\ fs0.sites[options.hostname].kind = "dir")
          => (StoppedAtStep(5) /\ fs.sites[options.hostname] = SiteDir
              /\ IgnoreKept /\ ComposeKept /\ fs.dotenv.kind = "file")

\* a run stopped by .env being a directory after it wrote the ignore file and
\* the manifest into a directory that had neither
C22_Witness ==
    /\ fs0.dotenv.kind = "dir" /\ fs0.gitignore.kind = "absent" /\ fs0.compose.kind = "absent"
    /\ pc = "done" /\ exitCode = 1
    /\ trace[Len(trace)] = "create_dotenv"
    /\ fs.dotenv = Dir /\ fs.gitignore.kind = "file" /\ fs.compose.kind = "file"

\* the polling loop is left by this step
LeavesDnsLoop == pc = "cb_dns" /\ pc' # "cb_dns"

\* C23: the DNS polling loop is left only by the hostname resolving or by the
\* operator's interrupt, and it is left once one of the two happens; left by
\* a resolve the address-matches-public-IP check comes next and is evaluated
\* before certbot runs, left by an interrupt that check is not evaluated.
C23_DnsLoopEnds ==
    /\ [][LeavesDnsLoop =>
            \/ trace' = Append(trace, "dns_resolved") /\ pc' = "cb_mismatch"
            \/ trace' = Append(trace, "dns_interrupted") /\ pc' = "cb_run"]_vars
    /\ []("dns_interrupted" \in Events =>
            Events \cap {"dns_mismatch", "dns_mismatch_declined"} = {})
    /\ []("dns_resolved" \in Events /\ pc \in {"cb_run", "done"} =>
            Events \cap {"dns_mismatch", "dns_mismatch_declined"} # {})
    /\ (pc = "cb_dns" ~> pc # "cb_dns")

\* the loop waited for a name that did not resolve and was left by CTRL+C
C23_Witness ==
    /\ pc = "cb_run"
    /\ "dns_waiting" \in Events /\ "dns_interrupted" \in Events
    /\ "dns_mismatch" \notin Events

\* C24: an uninstall of a site whose enabled symlink is absent and whose
\* available file exists does not fail at the symlink: the available file is
\* removed next, then the daemon is restarted, and without --cleanup the run
\* ends with status 0; with the available file absent the run ends with
\* status 1.
C24_UninstallWithoutSymlink ==
    (Running /\ args.uninstall /\ options.resolved
        /\ pc \notin {"configure", "interactive"}) =>
        LET h == options.hostname IN
        /\ (fs0.enabled[h] = "absent" /\ fs0.avail[h].kind = "file"
              /\ "remove_enabled" \in Events) =>
              /\ pc # "un_rm_enabled"
              /\ (pc = "un_rm_avail" => exitCode = -1)
              /\ (pc \notin {"un_rm_avail"} =>
                     "remove_available" \in Events /\ fs.avail[h] = SiteAbsent)
              /\ (pc = "done" => "systemctl restart nginx" \in Events)
              /\ (pc = "done" /\ ~args.cleanup => exitCode = 0)
        /\ (fs0.avail[h].kind = "absent" /\ pc = "done") => exitCode = 1

\* such an uninstall has ended with status 0, the available file gone
C24_Witness ==
    /\ args.uninstall /\ ~args.cleanup /\ options.resolved
    /\ fs0.enabled[options.hostname] = "absent"
    /\ fs0.avail[options.hostname].kind = "file"
    /\ pc = "done" /\ exitCode = 0
    /\ fs.avail[options.hostname] = SiteAbsent
    /\ trace[Len(trace)] = "systemctl restart nginx"

\* C25: when .env is a file with a non-comment line that does not hold
\* exactly one '=', or without one of the required keys, a run in any mode
\* ends with status 1 in Actions.configure: no file is written or removed,
\* no tool is invoked and no later step runs.
C25_MalformedEnvAborts ==
    (Running /\ fs0.dotenv \in {File(MalformedEnv), File(MalformedLine)}) =>
        /\ fs = fs0
        /\ Events \cap ToolEvents = {}
        /\ failed = {} /\ asked = {}
        /\ pc \in {"configure", "done"}
        /\ (pc = "done" => exitCode = 1 /\ trace = <<"configure">>)

\* an uninstall with cleanup of an installed site stopped by a line with two '='
C25_Witness ==
    /\ fs0.dotenv = File(MalformedLine)
    /\ args.uninstall /\ args.cleanup
    /\ \E h \in Hosts : fs0.avail[h].kind = "file" /\ fs.avail[h].kind = "file"
    /\ pc = "done" /\ exitCode = 1

\* the orchestration tool, the proxy daemon and the certificate issuer
ServiceEvents ==
    {"docker-compose up", "docker-compose down", "docker-compose down --volumes",
     "systemctl restart nginx", "certbot"}

\* C26: a run with none of --install, --uninstall, --certbot and --cleanup,
\* with or without --interactive, invokes neither docker-compose nor
\* systemctl nor certbot and leaves sites-available and sites-enabled as they
\* were; an uninstall run without --cleanup leaves the working directory's
\* artifacts as they were.
C26_ModeScope ==
    /\ (Running /\ ~args.install /\ ~args.uninstall /\ ~args.certbot /\ ~args.cleanup) =>
          /\ Events \cap ServiceEvents = {}
          /\ NginxPart(fs) = NginxPart(fs0)
    /\ (Running /\ args.uninstall /\ ~args.cleanup) => WorkDir(fs) = WorkDir(fs0)

\* a default-mode run next to an installed site generated its files and
\* ended with status 0
C26_Witness ==
    /\ ~args.install /\ ~args.uninstall /\ ~args.certbot /\ ~args.cleanup
    /\ pc = "done" /\ exitCode = 0
    /\ "create_nginx_conf" \in Events /\ fs # fs0
    /\ \E h \in Hosts : fs.avail[h].kind = "file"

\* a string of one or more labels with dots between them, each label one or
\* more ASCII letters or digits
InGrammar(s) ==
    /\ s # <<>>
    /\ LET labels == SplitAt(s, {"."}, <<>>) IN
       \A i \in 1..Len(labels) :
           /\ labels[i] # <<>>
           /\ \A j \in 1..Len(labels[i]) : labels[i][j] \in Lower \cup Upper \cup Range(Digits)

\* C27: the hostname grammar accepts example.com, a.b.c and localhost,
\* rejects 'exa mple.com', '-bad.com' and the empty string, and accepts
\* exactly the non-empty strings of dot-separated labels of ASCII letters and
\* digits: an answer is taken as the hostname if and only if it is such a
\* string.
C27_HostnameGrammar ==
    dialog.last.some =>
        ((dialog.field = 2 /\ dialog.values.hostname = dialog.last.text)
            <=> InGrammar(dialog.last.text))

====
